---- MODULE Spec2Model ----
(***************************************************************************)
(* Model of etl.py: the one-shot loader that walks data/song_data and      *)
(* data/log_data, parses every JSON file and inserts rows into the songs,  *)
(* artists, users, time and songplays tables, committing after each file.  *)
(*                                                                         *)
(* Values of JSON fields and SQL columns are strings.  NULL stands for a   *)
(* JSON null / SQL NULL / Python None, NaN for the float not-a-number that *)
(* pandas puts where a value is missing.  The SQL statements live in       *)
(* sql_queries.py, which is not part of the sources at hand: the insert    *)
(* policies and the lookup are modelled from the specification.            *)
(***************************************************************************)
EXTENDS Integers, Sequences, FiniteSets, TLC

\* Bounds of the model.
MaxSongFiles == 2
MaxLogFiles == 1
MaxEvents == 2
MaxRuns == 2

NULL == "null"
NaN == "NaN"

SeqsUpTo(S, n) == UNION {[1..k -> S] : k \in 0..n}

Last(s) == s[Len(s)]

RECURSIVE Concat(_)
Concat(ss) == IF Len(ss) = 0 THEN <<>> ELSE Head(ss) \o Concat(Tail(ss))

(***************************************************************************)
(* Input files.                                                            *)
(***************************************************************************)

\* The song record of the end-to-end scenario.
recA ==
  [song_id |-> "S1", title |-> "T", artist_id |-> "A1", year |-> "2000",
   duration |-> "200.5", artist_name |-> "N", artist_location |-> "L",
   artist_latitude |-> "1.0", artist_longitude |-> "2.0"]

\* Another song with the same title, artist name and duration, whose artist
\* has no known position.
recB ==
  [song_id |-> "S2", title |-> "T", artist_id |-> "A2", year |-> "0",
   duration |-> "200.5", artist_name |-> "N", artist_location |-> "",
   artist_latitude |-> NULL, artist_longitude |-> NULL]

\* A file is its JSON lines, or text that is no JSON at all (ok = FALSE).
File(recs) == [ok |-> TRUE, records |-> recs]
Malformed == [ok |-> FALSE, records |-> <<>>]

SongFileSet == {File(<<recA>>), File(<<recB>>), File(<<recA, recB>>), Malformed}

\* A playback of song T by artist N.
evPlay ==
  [page |-> "NextSong", ts |-> "1541121934796", userId |-> "10",
   firstName |-> "F", lastName |-> "G", gender |-> "M", level |-> "free",
   song |-> "T", artist |-> "N", length |-> "200.5", sessionId |-> "7",
   location |-> "X", userAgent |-> "UA"]

\* A playback at the same instant by the same user, now a paying one, whose
\* line carries no song, artist or length key.
evBare ==
  [page |-> "NextSong", ts |-> "1541121934796", userId |-> "10",
   firstName |-> "F", lastName |-> "G", gender |-> "M", level |-> "paid",
   sessionId |-> "7", location |-> "X", userAgent |-> "UA"]

\* A navigation event.
evHome ==
  [page |-> "Home", ts |-> "1541121999000", userId |-> "11",
   firstName |-> "H", lastName |-> "I", gender |-> "F", level |-> "free",
   song |-> NULL, artist |-> NULL, length |-> NULL, sessionId |-> "8",
   location |-> "Y", userAgent |-> "UA"]

EventSet == {evPlay, evBare, evHome}

LogFileSet == {File(es) : es \in SeqsUpTo(EventSet, MaxEvents)} \cup {Malformed}

(***************************************************************************)
(* pandas.                                                                 *)
(***************************************************************************)

NullToNaN(v) == IF v = NULL THEN NaN ELSE v

\* pd.read_json(filepath, lines=True): one row per line, one column per key
\* that some line has; a null, or a key the line lacks, reads as NaN.
ReadJson(recs) ==
  LET cols == UNION {DOMAIN recs[i] : i \in 1..Len(recs)}
  IN  [cols |-> cols,
       rows |-> [i \in 1..Len(recs) |->
                  [c \in cols |-> IF c \in DOMAIN recs[i]
                                  THEN NullToNaN(recs[i][c]) ELSE NaN]]]

\* df[[c1, ..., cn]].values of one row.
Project(row, cs) == [k \in 1..Len(cs) |-> row[cs[k]]]

\* pd.to_datetime(ts, unit='ms').
ToDatetime(ts) == <<"datetime", ts>>

\* t.dt.hour, t.dt.day, ...: a part of the timestamp, left uninterpreted.
DtPart(part, ts) == <<part, ts>>

(***************************************************************************)
(* The database session (cur.execute, cur.fetchone).                       *)
(***************************************************************************)

EmptyDB == [songs |-> <<>>, artists |-> <<>>, users |-> <<>>, time |-> <<>>,
            songplays |-> <<>>]

Insert(table, row) == [kind |-> "insert", table |-> table, row |-> row]
Select(params) == [kind |-> "select", table |-> "songs+artists", row |-> params]

HasKey(rows, key) == \E i \in 1..Len(rows) : rows[i][1] = key

\* INSERT ... ON CONFLICT (key) DO NOTHING.
InsertIgnore(rows, row) == IF HasKey(rows, row[1]) THEN rows ELSE Append(rows, row)

\* INSERT ... ON CONFLICT (key) DO UPDATE: the later record overwrites.
Upsert(rows, row) ==
  IF HasKey(rows, row[1])
  THEN [i \in 1..Len(rows) |-> IF rows[i][1] = row[1] THEN row ELSE rows[i]]
  ELSE Append(rows, row)

\* cur.execute of one insert statement on the tables the session sees.
Execute(t, stmt) ==
  CASE stmt.table = "songs" -> [t EXCEPT !.songs = InsertIgnore(@, stmt.row)]
    [] stmt.table = "artists" -> [t EXCEPT !.artists = InsertIgnore(@, stmt.row)]
    [] stmt.table = "users" -> [t EXCEPT !.users = Upsert(@, stmt.row)]
    [] stmt.table = "time" -> [t EXCEPT !.time = Append(@, stmt.row)]
    [] stmt.table = "songplays" -> [t EXCEPT !.songplays = Append(@, stmt.row)]
    [] OTHER -> t

\* The rows of the songs/artists join for one song row.
JoinRows(s, artists, song, artist, length) ==
  LET as == SelectSeq(artists, LAMBDA a : /\ a[1] = s[3]
                                          /\ s[2] = song
                                          /\ a[2] = artist
                                          /\ s[5] = length)
  IN  [k \in 1..Len(as) |-> <<s[1], as[k][1]>>]

\* song_select: the (song_id, artist_id) pairs of the songs/artists join with
\* this title, artist name and duration, in the order of the rows.
SongSelect(t, song, artist, length) ==
  Concat([i \in 1..Len(t.songs) |->
            JoinRows(t.songs[i], t.artists, song, artist, length)])

\* cur.fetchone(): the first row of the result, or None (the empty tuple).
FetchOne(result) == IF Len(result) = 0 THEN <<>> ELSE result[1]

RECURSIVE ExecAll(_, _)
ExecAll(t, stmts) ==
  IF Len(stmts) = 0 THEN t ELSE ExecAll(Execute(t, Head(stmts)), Tail(stmts))

\* What a call of an extractor did: whether it returned (ok) or raised, the
\* statements it executed, and the tables its session sees afterwards.
Outcome(ok, t, stmts) == [ok |-> ok, stmts |-> stmts, db |-> ExecAll(t, stmts)]

(***************************************************************************)
(* process_song_file.                                                      *)
(***************************************************************************)

SongCols == <<"song_id", "title", "artist_id", "year", "duration">>
ArtistCols == <<"artist_id", "artist_name", "artist_location",
                "artist_latitude", "artist_longitude">>

Range(s) == {s[k] : k \in 1..Len(s)}

\* list(df[[...]].values[0]): the first record's song columns.
SongData(df) == Project(df.rows[1], SongCols)

\* list(df[[...]].values.flatten()): the artist columns of every record.
ArtistData(df) == Concat([r \in 1..Len(df.rows) |-> Project(df.rows[r], ArtistCols)])

process_song_file(t, file) ==
  IF ~file.ok THEN Outcome(FALSE, t, <<>>)
  ELSE LET df == ReadJson(file.records)
       IN  IF ~(Range(SongCols) \subseteq df.cols) \/ Len(df.rows) = 0
           THEN Outcome(FALSE, t, <<>>)
           ELSE LET s1 == Insert("songs", SongData(df))
                IN  IF ~(Range(ArtistCols) \subseteq df.cols)
                    THEN Outcome(FALSE, t, <<s1>>)
                    ELSE LET artist_data == ArtistData(df)
                         IN  \* as many arguments as the insert has placeholders
                             IF Len(artist_data) # Len(ArtistCols)
                             THEN Outcome(FALSE, t, <<s1>>)
                             ELSE Outcome(TRUE, t, <<s1, Insert("artists", artist_data)>>)

(***************************************************************************)
(* process_log_file.                                                       *)
(***************************************************************************)

UserCols == <<"userId", "firstName", "lastName", "gender", "level">>
PlayCols == {"song", "artist", "length", "ts", "userId", "level", "sessionId",
             "location", "userAgent"}

\* Mutant: the filter on page is left out.
FilterNone(df) == df

\* df[df['page'] == 'NextSong'].
FilterNextSong(df) ==
  [df EXCEPT !.rows = SelectSeq(df.rows, LAMBDA r : r.page = "NextSong")]

\* One row of time_df.
TimeRow(ts) ==
  <<ToDatetime(ts), DtPart("hour", ts), DtPart("day", ts), DtPart("week", ts),
    DtPart("month", ts), DtPart("year", ts), DtPart("weekday", ts)>>

\* Mutant: one time row per distinct timestamp (drop_duplicates).
TimeStmtsDistinct(df) ==
  LET firsts == SelectSeq([k \in 1..Len(df.rows) |-> k],
                          LAMBDA k : \A j \in 1..(k - 1) : df.rows[j].ts # df.rows[k].ts)
  IN  [n \in 1..Len(firsts) |-> Insert("time", TimeRow(df.rows[firsts[n]].ts))]

TimeStmts(df) == [k \in 1..Len(df.rows) |-> Insert("time", TimeRow(df.rows[k].ts))]

UserStmts(df) == [k \in 1..Len(df.rows) |-> Insert("users", Project(df.rows[k], UserCols))]

\* Mutant: the artist identifier of the result is dropped.
ResolveSongOnly(results) ==
  IF Len(results) > 0 THEN <<results[1], NULL>> ELSE <<NULL, NULL>>

\* if results: songid, artistid = results; else: songid, artistid = None, None
ResolveIds(results) == IF Len(results) > 0 THEN results ELSE <<NULL, NULL>>

\* Mutant: a title the lookup does not find is added to the songs table.
SongplayStmtsAddSong(t, row) ==
  LET params == <<row.song, row.artist, row.length>>
      found == FetchOne(SongSelect(t, row.song, row.artist, row.length))
      ids == ResolveIds(found)
      play == Insert("songplays", <<ToDatetime(row.ts), row.userId, row.level, ids[1],
                                    ids[2], row.sessionId, row.location, row.userAgent>>)
  IN  IF Len(found) > 0 THEN <<Select(params), play>>
      ELSE <<Insert("songs", <<row.song, row.song, row.artist, "0", row.length>>),
             Select(params), play>>

\* One turn of the songplay loop: the lookup, then the insert.
SongplayStmts(t, row) ==
  LET params == <<row.song, row.artist, row.length>>
      ids == ResolveIds(FetchOne(SongSelect(t, row.song, row.artist, row.length)))
  IN  <<Select(params),
        Insert("songplays", <<ToDatetime(row.ts), row.userId, row.level, ids[1],
                              ids[2], row.sessionId, row.location, row.userAgent>>)>>

\* Mutant: a playback whose start time and user are in the table already is
\* skipped.
RECURSIVE SongplayLoopNew(_, _)
SongplayLoopNew(t, rows) ==
  IF Len(rows) = 0 THEN <<>>
  ELSE LET r == Head(rows)
           ss == IF \E k \in 1..Len(t.songplays) :
                        /\ t.songplays[k][1] = ToDatetime(r.ts)
                        /\ t.songplays[k][2] = r.userId
                 THEN <<>> ELSE SongplayStmts(t, r)
       IN  ss \o SongplayLoopNew(ExecAll(t, ss), Tail(rows))

RECURSIVE SongplayLoop(_, _)
SongplayLoop(t, rows) ==
  IF Len(rows) = 0 THEN <<>>
  ELSE LET ss == SongplayStmts(t, Head(rows))
       IN  ss \o SongplayLoop(ExecAll(t, ss), Tail(rows))

process_log_file(t, file) ==
  IF ~file.ok THEN Outcome(FALSE, t, <<>>)
  ELSE LET df0 == ReadJson(file.records)
       IN  IF ~({"page", "ts"} \subseteq df0.cols)
           THEN Outcome(FALSE, t, <<>>)
           ELSE LET df == FilterNextSong(df0)
                    ts == TimeStmts(df)
                IN  IF ~(Range(UserCols) \subseteq df.cols)
                    THEN Outcome(FALSE, t, ts)
                    ELSE LET us == UserStmts(df)
                         IN  IF Len(df.rows) > 0 /\ ~(PlayCols \subseteq df.cols)
                             THEN Outcome(FALSE, t, ts \o us)
                             ELSE Outcome(TRUE, t,
                                    ts \o us \o SongplayLoop(ExecAll(t, ts \o us), df.rows))

(***************************************************************************)
(* main and process_data.                                                  *)
(***************************************************************************)

VARIABLES
  songFiles,  \* the files under data/song_data, in the order of discovery
  logFiles,   \* the files under data/log_data, in the order of discovery
  phase,      \* where main is: "song" or "log" (the process_data call it is
              \* in), "closed" (after conn.close()), "failed" (an exception
              \* left main)
  i,          \* the loop counter of process_data (enumerate from 1)
  at,         \* the statement of the loop body to run next: "func", "commit"
  db,         \* the committed tables
  tx,         \* the tables as the open session sees them
  trace,      \* what this run of main did so far: calls, commits, the close
  last,       \* the outcome of the most recent extractor call
  run,        \* which run of the script against this database this is
  prev,       \* the committed tables when this run started
  resolved    \* the lookups of this run: <<parameters, identifiers put in
              \* the songplay row>>

vars == <<songFiles, logFiles, phase, i, at, db, tx, trace, last, run, prev,
          resolved>>

Event(op, pass, file, ok) == [op |-> op, pass |-> pass, file |-> file, ok |-> ok]

NoCall == [pass |-> "none", file |-> 0, ok |-> TRUE, stmts |-> <<>>]

Init ==
  /\ songFiles \in SeqsUpTo(SongFileSet, MaxSongFiles)
  /\ logFiles \in SeqsUpTo(LogFileSet, MaxLogFiles)
  /\ phase = "song"
  /\ i = 1
  /\ at = "func"
  /\ db = EmptyDB
  /\ tx = EmptyDB
  /\ trace = <<>>
  /\ last = NoCall
  /\ run = 1
  /\ prev = EmptyDB
  /\ resolved = {}

\* The songplay inserts among the statements of a call, each with the
\* parameters of the lookup that precedes it.
Lookups(stmts) ==
  {<<stmts[k - 1].row, <<stmts[k].row[4], stmts[k].row[5]>>>> :
     k \in {j \in 2..Len(stmts) : stmts[j].table = "songplays"}}

\* Mutant: an exception of the extractor is swallowed and the loop goes on.
CallSwallow(out) ==
  /\ tx' = out.db
  /\ last' = [pass |-> phase, file |-> i, ok |-> out.ok, stmts |-> out.stmts]
  /\ trace' = Append(trace, Event("func", phase, i, out.ok))
  /\ at' = "commit"
  /\ resolved' = resolved \cup Lookups(out.stmts)
  /\ UNCHANGED <<songFiles, logFiles, phase, i, db, run, prev>>

\* func(cur, datafile), line 111: the call returns, or raises and ends main.
Call(out) ==
  /\ tx' = out.db
  /\ last' = [pass |-> phase, file |-> i, ok |-> out.ok, stmts |-> out.stmts]
  /\ trace' = Append(trace, Event("func", phase, i, out.ok))
  /\ IF out.ok THEN at' = "commit" /\ phase' = phase
               ELSE at' = at /\ phase' = "failed"
  /\ resolved' = resolved \cup Lookups(out.stmts)
  /\ UNCHANGED <<songFiles, logFiles, i, db, run, prev>>

ProcessSongFile ==
  /\ phase = "song" /\ at = "func" /\ i <= Len(songFiles)
  /\ Call(process_song_file(tx, songFiles[i]))

ProcessLogFile ==
  /\ phase = "log" /\ at = "func" /\ i <= Len(logFiles)
  /\ Call(process_log_file(tx, logFiles[i]))

\* Mutant: the commit is issued after the last file only.
CommitLastOnly ==
  /\ phase \in {"song", "log"} /\ at = "commit"
  /\ IF i = Len(IF phase = "song" THEN songFiles ELSE logFiles)
     THEN db' = tx /\ trace' = Append(trace, Event("commit", phase, i, TRUE))
     ELSE db' = db /\ trace' = trace
  /\ i' = i + 1
  /\ at' = "func"
  /\ UNCHANGED <<songFiles, logFiles, phase, tx, last, run, prev, resolved>>

\* conn.commit(), line 112, and back to the head of the loop.
Commit ==
  /\ phase \in {"song", "log"} /\ at = "commit"
  /\ db' = tx
  /\ trace' = Append(trace, Event("commit", phase, i, TRUE))
  /\ i' = i + 1
  /\ at' = "func"
  /\ UNCHANGED <<songFiles, logFiles, phase, tx, last, run, prev, resolved>>

\* Mutant: the log pass may start before the song files are exhausted.
StartLogPassEarly ==
  /\ phase = "song" /\ at = "func"
  /\ phase' = "log"
  /\ i' = 1
  /\ UNCHANGED <<songFiles, logFiles, at, db, tx, trace, last, run, prev,
                 resolved>>

\* The song pass returns and main calls process_data for data/log_data.
StartLogPass ==
  /\ phase = "song" /\ at = "func" /\ i > Len(songFiles)
  /\ phase' = "log"
  /\ i' = 1
  /\ UNCHANGED <<songFiles, logFiles, at, db, tx, trace, last, run, prev,
                 resolved>>

\* Mutant: the connection may be closed before the log files are exhausted.
CloseEarly ==
  /\ phase = "log" /\ at = "func"
  /\ phase' = "closed"
  /\ trace' = Append(trace, Event("close", "log", 0, TRUE))
  /\ tx' = db
  /\ UNCHANGED <<songFiles, logFiles, i, at, db, last, run, prev, resolved>>

\* The log pass returns and main closes the connection.
Close ==
  /\ phase = "log" /\ at = "func" /\ i > Len(logFiles)
  /\ phase' = "closed"
  /\ trace' = Append(trace, Event("close", "log", 0, TRUE))
  /\ tx' = db
  /\ UNCHANGED <<songFiles, logFiles, i, at, db, last, run, prev, resolved>>

\* The script is run again on the same files and the same database.
Rerun ==
  /\ phase = "closed" /\ run < MaxRuns
  /\ run' = run + 1
  /\ prev' = db
  /\ phase' = "song"
  /\ i' = 1
  /\ at' = "func"
  /\ tx' = db
  /\ trace' = <<>>
  /\ last' = NoCall
  /\ resolved' = {}
  /\ UNCHANGED <<songFiles, logFiles, db>>

Next ==
  \/ ProcessSongFile
  \/ ProcessLogFile
  \/ Commit
  \/ StartLogPass
  \/ Close
  \/ Rerun

Spec == Init /\ [][Next]_vars

(***************************************************************************)
(* Properties.                                                             *)
(***************************************************************************)

NextSongEvents(file) == SelectSeq(file.records, LAMBDA e : e.page = "NextSong")

InsertsInto(stmts, table) ==
  SelectSeq(stmts, LAMBDA st : st.kind = "insert" /\ st.table = table)

\* C1: every time, users and songplays insert that process_log_file issues
\* for a file carries the values of an event of that file whose page is
\* "NextSong"; a file without such an event gets no insert at all.
C1_InsertsOnlyForNextSong ==
  last.pass = "log" =>
    LET ns == Range(NextSongEvents(logFiles[last.file]))
    IN  \A k \in 1..Len(last.stmts) :
          LET st == last.stmts[k]
          IN  st.kind = "insert" =>
                \E e \in ns :
                  CASE st.table = "time" -> st.row[1] = ToDatetime(e.ts)
                    [] st.table = "users" ->
                         st.row = <<e.userId, e.firstName, e.lastName, e.gender, e.level>>
                    [] st.table = "songplays" ->
                         /\ st.row[1] = ToDatetime(e.ts)
                         /\ st.row[2] = e.userId
                         /\ st.row[3] = e.level
                         /\ st.row[6] = e.sessionId
                         /\ st.row[7] = e.location
                         /\ st.row[8] = e.userAgent
                    [] OTHER -> FALSE

\* A log file with a navigation event and a playback was processed and
\* rows were inserted for it.
C1_Witness ==
  /\ last.pass = "log" /\ last.ok
  /\ logFiles[last.file].records = <<evHome, evPlay>>
  /\ Len(InsertsInto(last.stmts, "songplays")) = 1

\* The (song row, artist row) pairs of the session's tables that the join
\* yields for a title, an artist name and a duration.
JoinMatches(t, params) ==
  {p \in (1..Len(t.songs)) \X (1..Len(t.artists)) :
     /\ t.songs[p[1]][3] = t.artists[p[2]][1]
     /\ t.songs[p[1]][2] = params[1]
     /\ t.artists[p[2]][2] = params[2]
     /\ t.songs[p[1]][5] = params[3]}

\* C2: a songplay insert has song_id and artist_id both null when the join
\* has no row for the event's (title, artist name, duration); otherwise both
\* are the identifiers of a joined song row and artist row of the tables.
\* Never exactly one of the two is null.
C2_SongplayIdsResolved ==
  last.pass = "log" =>
    \A k \in 2..Len(last.stmts) :
      LET st == last.stmts[k]
          m == JoinMatches(tx, last.stmts[k - 1].row)
      IN  st.table = "songplays" =>
            /\ (st.row[4] = NULL) <=> (st.row[5] = NULL)
            /\ m = {} => st.row[4] = NULL /\ st.row[5] = NULL
            /\ m # {} => \E p \in m : /\ st.row[4] = tx.songs[p[1]][1]
                                      /\ st.row[5] = tx.artists[p[2]][1]

\* One call inserted a songplay with resolved identifiers and one with null
\* identifiers, while two songs match the played title.
C2_Witness ==
  /\ last.pass = "log" /\ last.ok
  /\ Len(tx.songs) = 2
  /\ \E j, k \in 1..Len(last.stmts) :
        /\ last.stmts[j].table = "songplays" /\ last.stmts[j].row[4] = NULL
        /\ last.stmts[k].table = "songplays" /\ last.stmts[k].row[4] # NULL
        /\ last.stmts[k].row[5] # NULL

\* C3, as claimed: a song file of one record gets exactly one songs insert
\* and one artists insert, whose values are the record's own, unchanged.
C3_SongRowsAreSourceValues ==
  (last.pass = "song" /\ Len(songFiles[last.file].records) = 1) =>
    LET r == songFiles[last.file].records[1]
    IN  last.stmts =
          <<Insert("songs", <<r.song_id, r.title, r.artist_id, r.year, r.duration>>),
            Insert("artists", <<r.artist_id, r.artist_name, r.artist_location,
                                r.artist_latitude, r.artist_longitude>>)>>

\* C9: process_log_file issues one time insert per NextSong event of the
\* file, equal timestamps included, and, when it returns, one users upsert
\* and one songplays insert per NextSong event as well.
C9_OneInsertPerNextSong ==
  last.pass = "log" =>
    LET n == Len(NextSongEvents(logFiles[last.file]))
    IN  /\ Len(InsertsInto(last.stmts, "time")) = n
        /\ last.ok => /\ Len(InsertsInto(last.stmts, "users")) = n
                       /\ Len(InsertsInto(last.stmts, "songplays")) = n

\* A file with two playbacks at the same instant got two time inserts.
C9_Witness ==
  /\ last.pass = "log" /\ last.ok
  /\ logFiles[last.file].records = <<evPlay, evBare>>
  /\ evPlay.ts = evBare.ts
  /\ Len(InsertsInto(last.stmts, "time")) = 2

\* The calls and commits of one process_data call, in order.
PassTrace(p) == SelectSeq(trace, LAMBDA e : e.pass = p /\ e.op \in {"func", "commit"})

\* C4: nothing of the log pass happens before every song file was extracted
\* and committed, and nothing of the song pass happens after it.
C4_SongPassBeforeLogPass ==
  /\ \A k \in 1..Len(trace) :
        trace[k].pass = "log" =>
          /\ \A f \in 1..Len(songFiles) :
                \E a, b \in 1..(k - 1) :
                  /\ a < b
                  /\ trace[a] = Event("func", "song", f, TRUE)
                  /\ trace[b] = Event("commit", "song", f, TRUE)
          /\ \A j \in k..Len(trace) : trace[j].pass = "log"
  /\ PassTrace("log") = <<>> =>
        /\ tx.time = prev.time /\ tx.users = prev.users
        /\ tx.songplays = prev.songplays /\ resolved = {}
  /\ last.pass = "log" => PassTrace("log") # <<>>
  /\ phase = "log" => i <= Len(PassTrace("log")) + 1

\* The log pass is under way after two song files.
C4_Witness ==
  /\ Len(songFiles) = 2
  /\ phase = "log"
  /\ last.pass = "log" /\ Len(last.stmts) > 0

\* The calls and commits of a pass alternate, file by file in the order of
\* discovery; only the last call may have failed.
Alternates(pt) ==
  \A j \in 1..Len(pt) :
    IF j % 2 = 1
    THEN pt[j].op = "func" /\ pt[j].file = (j + 1) \div 2 /\ (pt[j].ok \/ j = Len(pt))
    ELSE pt[j].op = "commit" /\ pt[j].file = j \div 2 /\ pt[j - 1].ok

\* C5: process_data calls the extractor once per file in the order of
\* discovery and commits once right after each call; a pass that returns
\* made n calls and n commits, none of either when n = 0.
C5_CallThenCommitPerFile ==
  /\ Alternates(PassTrace("song"))
  /\ Alternates(PassTrace("log"))
  /\ Len(PassTrace("song")) <= 2 * Len(songFiles)
  /\ Len(PassTrace("log")) <= 2 * Len(logFiles)
  /\ phase \in {"log", "closed"} => Len(PassTrace("song")) = 2 * Len(songFiles)
  /\ phase = "closed" => Len(PassTrace("log")) = 2 * Len(logFiles)
  /\ \A p \in {"song", "log"} :
        Len(SelectSeq(PassTrace(p), LAMBDA e : e.op = "commit"))
          = Len(SelectSeq(PassTrace(p), LAMBDA e : e.op = "func" /\ e.ok))
            - (IF phase = p /\ at = "commit" THEN 1 ELSE 0)

\* A run with two song files and no log file has ended.
C5_Witness ==
  /\ phase = "closed"
  /\ Len(songFiles) = 2 /\ Len(logFiles) = 0
  /\ Len(PassTrace("song")) = 4 /\ PassTrace("log") = <<>>

AllNextSong == Concat([k \in 1..Len(logFiles) |-> NextSongEvents(logFiles[k])])

C7_FailureHalts ==
  /\ [](/\ ~last.ok => phase = "failed"
        /\ phase = "failed" =>
             /\ ~last.ok /\ last.file = i
             /\ Last(trace) = Event("func", last.pass, i, FALSE)
             /\ Len(SelectSeq(PassTrace(last.pass), LAMBDA e : e.op = "commit")) = i - 1
             /\ \A k \in 1..Len(trace) :
                  trace[k].pass = last.pass => trace[k].file <= i)
  /\ [][/\ phase # "failed"
        /\ phase' = "failed" => db' = db]_vars

\* The second file failed after an insert; the first file is committed.
C7_Witness ==
  /\ phase = "failed"
  /\ i = 2
  /\ Len(last.stmts) > 0
  /\ tx # db
  /\ db # prev

\* C8: the connection is closed once, as the last action, after both passes
\* went through all their files; a failed run is never closed, a failure of
\* the song pass keeps the log pass from starting, and once the log pass went
\* through its files the close is what comes next.
C8_CloseAfterBothPasses ==
  LET closes == SelectSeq(trace, LAMBDA e : e.op = "close")
  IN  /\ phase = "closed" =>
            /\ Len(closes) = 1 /\ Last(trace).op = "close"
            /\ \A k \in 1..Len(trace) : trace[k].ok
            /\ Len(PassTrace("song")) = 2 * Len(songFiles)
            /\ Len(PassTrace("log")) = 2 * Len(logFiles)
            /\ tx = db
      /\ phase # "closed" => Len(closes) = 0
      /\ (phase = "failed" /\ last.pass = "song") => PassTrace("log") = <<>>
      /\ (phase = "log" /\ Len(PassTrace("log")) = 2 * Len(logFiles)) =>
            ENABLED Close

\* A run with a song file and a log file was closed.
C8_Witness ==
  /\ phase = "closed"
  /\ Len(songFiles) >= 1 /\ Len(logFiles) >= 1
  /\ Len(db.songplays) >= 1

\* C10: process_song_file only inserts into songs and artists;
\* process_log_file only inserts into time, users and songplays and only
\* reads songs and artists.  So the log pass leaves songs and artists as
\* they are, the song pass leaves the other three tables as they are, and
\* equal (title, artist name, duration) resolve to equal identifiers.
C10_Frame ==
  /\ [](/\ last.pass = "song" =>
             \A k \in 1..Len(last.stmts) :
               /\ last.stmts[k].kind = "insert"
               /\ last.stmts[k].table \in {"songs", "artists"}
        /\ last.pass = "log" =>
             \A k \in 1..Len(last.stmts) :
               \/ /\ last.stmts[k].kind = "insert"
                  /\ last.stmts[k].table \in {"time", "users", "songplays"}
               \/ last.stmts[k].kind = "select"
        /\ \A a, b \in resolved : a[1] = b[1] => a[2] = b[2])
  /\ [][/\ phase = "log" =>
             /\ tx'.songs = tx.songs /\ tx'.artists = tx.artists
             /\ db'.songs = db.songs /\ db'.artists = db.artists
        /\ phase = "song" =>
             /\ tx'.time = tx.time /\ tx'.users = tx.users
             /\ tx'.songplays = tx.songplays
             /\ db'.time = db.time /\ db'.users = db.users
             /\ db'.songplays = db.songplays]_vars

\* Two playbacks of the same title were resolved in one log pass while two
\* songs carry that title.
C10_Witness ==
  /\ phase = "log" /\ last.pass = "log" /\ last.ok
  /\ Len(tx.songs) = 2
  /\ logFiles[last.file].records = <<evPlay, evPlay>>
  /\ \E a \in resolved : a[2][1] # NULL

====
